---- MODULE Spec2Model ----
(***************************************************************************)
(* A model of s2t-gcp.py: a command line script that either lists the      *)
(* voices of a remote text-to-speech service or reads a .txt / .pdf file,  *)
(* sends its text to the service and writes the returned audio to a file.  *)
(* A behaviour is one run of the script, from the parsed command line to   *)
(* the exit of the process.                                                *)
(***************************************************************************)
EXTENDS Integers, Sequences, FiniteSets, TLC

(* ------------------------------ bounds -------------------------------- *)

\* longest content, in bytes, of a file read as text
MaxLen == 3
\* most pages of a PDF document
MaxPages == 2
\* longest text a PDF page yields
MaxPageLen == 1
\* longest audio payload the service returns
MaxAudio == 1
\* most voices the service lists
MaxVoices == 1

(* --------------------------- values and sets -------------------------- *)

\* Python's None, as a value no path or option can equal
None == <<"<None>">>

\* the exit status of a process that has not exited
NoExit == 0 - 1

\* all sequences over S of length at most n
RECURSIVE SeqsUpTo(_, _)
SeqsUpTo(S, n) ==
    IF n = 0 THEN {<<>>}
    ELSE LET shorter == SeqsUpTo(S, n - 1)
         IN  shorter \cup {Append(s, x) : s \in {t \in shorter : Len(t) = n - 1}, x \in S}

\* bytes a file holds: ASCII letters and white space, and the two bytes of
\* the UTF-8 encoding of U+00E9
Bytes == {"a", "SP", "CR", "LF", "C3", "A9"}

\* the input paths tried on the command line
InputPaths ==
    { <<"a", ".", "t", "x", "t">>,
      <<"a", ".", "T", "x", "T">>,
      <<"a", ".", "p", "d", "f">>,
      <<"a", ".", "P", "D", "F">>,
      <<"a", ".", "d", "o", "c">>,
      <<"a">>,
      <<".", "t", "x", "t">>,
      <<"d", ".", "t", "x", "t", "/", "a">>,
      <<>> }

OutputPath == <<"o", ".", "m", "p", "3">>

VoiceNames == {<<"en-US-Wavenet-H">>}
LanguageCodes == {<<"fr-FR">>}

\* what the file system holds at the input path when it is opened
TextFiles ==
    {[kind |-> "text", bytes |-> b, pages |-> <<>>] : b \in SeqsUpTo(Bytes, MaxLen)}

PageTexts == SeqsUpTo({"a", "SP"}, MaxPageLen)

PdfPages ==
    {[raises |-> FALSE, text |-> t] : t \in PageTexts}
        \cup {[raises |-> TRUE, text |-> <<>>]}

PdfFiles ==
    {[kind |-> "pdf", bytes |-> <<>>, pages |-> p] : p \in SeqsUpTo(PdfPages, MaxPages)}

AbsentFiles ==
    {[kind |-> k, bytes |-> <<>>, pages |-> <<>>] : k \in {"missing", "denied"}}

\* a file that is no PDF document, as PdfReader finds it
NotAPdf == [kind |-> "text", bytes |-> <<"a">>, pages |-> <<>>]

Unopened == [kind |-> "unopened", bytes |-> <<>>, pages |-> <<>>]

AudioContents == SeqsUpTo({"m1", "m2"}, MaxAudio)

\* the command lines argparse accepts
CommandLines ==
    [ positionals : {<<>>} \cup {<<p>> : p \in InputPaths}
                           \cup {<<p, OutputPath>> : p \in InputPaths},
      list_voices : BOOLEAN,
      voice       : {None} \cup VoiceNames,
      language    : {None} \cup LanguageCodes ]

(* ------------------------------ messages ------------------------------ *)

MsgUsage        == "usage: Text-to-Speech using Google Cloud API"
MsgClient       == "Error creating client"
MsgListing      == "Error listing voices"
MsgUnsupported  == "Error: Unsupported file type"
MsgNotFound     == "Error: Input file not found"
MsgRead         == "Error reading input file"
MsgNoText       == "Error: No text extracted from the input file."
MsgSynthesis    == "Error during synthesis"
MsgWrite        == "Error writing output file"
MsgWritten      == "Audio content written to file"
MsgVoice        == "Name"

Line(t, d) == [text |-> t, detail |-> d]

(* ------------------------------- state -------------------------------- *)

VARIABLES
    cli,        \* the command line of the run
    args,       \* the namespace parse_args returns
    pc,         \* the statement the script is at
    exit,       \* the exit status of the process
    stdout,     \* the lines printed so far
    file_ext,   \* text_to_speech: the lowered extension of input_file
    text,       \* text_to_speech: the text read from the input file
    file,       \* what was found at the input path when it was opened
    opens,      \* how often the input file was opened
    clients,    \* how often a TextToSpeechClient was constructed
    listCalls,  \* the language codes of the list_voices calls issued
    synthCalls, \* the requests of the synthesize_speech calls issued
    response,   \* the response of the service call
    printed,    \* list_voices: the voices printed so far
    outFile0,   \* the file at the output path when the run starts
    outFile,    \* the file at the output path
    outOpens,   \* how often the output file was opened for writing
    raised      \* the stages at which the environment raised an exception

vars == <<cli, args, pc, exit, stdout, file_ext, text, file, opens, clients,
          listCalls, synthCalls, response, printed, outFile0, outFile,
          outOpens, raised>>

NoFile == [exists |-> FALSE, data |-> <<>>]
OldFile == [exists |-> TRUE, data |-> <<"old">>]
NoResponse == [voices |-> 0, audio_content |-> <<>>]

Init ==
    /\ cli \in CommandLines
    /\ args = [input_file |-> None, output_file |-> None, list_voices |-> FALSE,
               voice |-> None, language |-> None]
    /\ pc = "parse_args"
    /\ exit = NoExit
    /\ stdout = <<>>
    /\ file_ext = <<>>
    /\ text = <<>>
    /\ file = Unopened
    /\ opens = 0
    /\ clients = 0
    /\ listCalls = <<>>
    /\ synthCalls = <<>>
    /\ response = NoResponse
    /\ printed = 0
    /\ outFile0 \in {NoFile, OldFile}
    /\ outFile = outFile0
    /\ outOpens = 0
    /\ raised = {}

(* ------------------------------ helpers ------------------------------- *)

\* sys.exit(code), and the end of the script (status 0)
SysExit(code) ==
    /\ pc' = "done"
    /\ exit' = code

\* Python's truth value of an optional string
Truthy(s) == s # None /\ s # <<>>

(* ---------------------------- __main__ -------------------------------- *)

DefaultVoice == <<"en-US-Wavenet-D">>
DefaultLanguage == <<"en-US">>

\* parser.parse_args(): nargs='?' positionals default to None, options to
\* their default= value
Namespace(c) ==
    [ input_file  |-> IF Len(c.positionals) >= 1 THEN c.positionals[1] ELSE None,
      output_file |-> IF Len(c.positionals) >= 2 THEN c.positionals[2] ELSE None,
      list_voices |-> c.list_voices,
      voice       |-> IF c.voice = None THEN DefaultVoice ELSE c.voice,
      language    |-> IF c.language = None THEN DefaultLanguage ELSE c.language ]

ParseArgs ==
    /\ pc = "parse_args"
    /\ args' = Namespace(cli)
    /\ pc' = "dispatch"
    /\ UNCHANGED <<cli, exit, stdout, file_ext, text, file, opens, clients,
                   listCalls, synthCalls, response, printed, outFile0, outFile,
                   outOpens, raised>>
\* mutant: the positional arguments are looked at before the flag
BranchPositionalsFirst(a) ==
    IF Truthy(a.input_file) /\ Truthy(a.output_file) THEN "text_to_speech"
    ELSE IF a.list_voices THEN "list_voices"
    ELSE "print_help"

\* mutant: help only when both positional arguments are missing
BranchBothMissing(a) ==
    IF a.list_voices THEN "list_voices"
    ELSE IF ~Truthy(a.input_file) /\ ~Truthy(a.output_file) THEN "print_help"
    ELSE "text_to_speech"

\* the branch the if / elif / else of __main__ takes
Branch(a) ==
    IF a.list_voices THEN "list_voices"
    ELSE IF ~Truthy(a.input_file) \/ ~Truthy(a.output_file) THEN "print_help"
    ELSE "text_to_speech"

DispatchList ==
    /\ pc = "dispatch"
    /\ Branch(args) = "list_voices"
    /\ pc' = "lv_client"
    /\ UNCHANGED <<cli, args, exit, stdout, file_ext, text, file, opens, clients,
                   listCalls, synthCalls, response, printed, outFile0, outFile,
                   outOpens, raised>>

DispatchHelp ==
    /\ pc = "dispatch"
    /\ Branch(args) = "print_help"
    /\ stdout' = Append(stdout, Line(MsgUsage, <<>>))
    /\ SysExit(1)
    /\ UNCHANGED <<cli, args, file_ext, text, file, opens, clients,
                   listCalls, synthCalls, response, printed, outFile0, outFile,
                   outOpens, raised>>

DispatchSynthesize ==
    /\ pc = "dispatch"
    /\ Branch(args) = "text_to_speech"
    /\ pc' = "tts_splitext"
    /\ UNCHANGED <<cli, args, exit, stdout, file_ext, text, file, opens, clients,
                   listCalls, synthCalls, response, printed, outFile0, outFile,
                   outOpens, raised>>

(* ---------------------------- list_voices ----------------------------- *)

\* the language_code __main__ passes to list_voices
ListLanguage(a) == a.language
\* mutant: the except clause exits with status 0
PrintAndExitZero(msg, detail) ==
    /\ stdout' = Append(stdout, Line(msg, detail))
    /\ SysExit(0)

\* mutant: the except clause prints and does not exit
PrintNoExit(msg, detail) ==
    /\ stdout' = Append(stdout, Line(msg, detail))
    /\ UNCHANGED <<pc, exit>>

\* an except clause of list_voices or text_to_speech that prints and exits
PrintAndExit(msg, detail) ==
    /\ stdout' = Append(stdout, Line(msg, detail))
    /\ SysExit(1)

LvCreateClient ==
    /\ pc = "lv_client"
    /\ clients' = clients + 1
    /\ \/ /\ pc' = "lv_query"
          /\ UNCHANGED <<exit, stdout, raised>>
       \/ /\ raised' = raised \cup {"client"}
          /\ PrintAndExit(MsgClient, <<"Exception">>)
    /\ UNCHANGED <<cli, args, file_ext, text, file, opens, listCalls, synthCalls,
                   response, printed, outFile0, outFile, outOpens>>

LvQuery ==
    /\ pc = "lv_query"
    /\ listCalls' = Append(listCalls, ListLanguage(args))
    /\ \/ /\ \E n \in 0..MaxVoices : response' = [response EXCEPT !.voices = n]
          /\ pc' = "lv_print"
          /\ UNCHANGED <<exit, stdout, raised>>
       \/ /\ raised' = raised \cup {"listing"}
          /\ PrintAndExit(MsgListing, <<"Exception">>)
          /\ UNCHANGED response
    /\ UNCHANGED <<cli, args, file_ext, text, file, opens, clients, synthCalls,
                   printed, outFile0, outFile, outOpens>>

LvPrintVoice ==
    /\ pc = "lv_print"
    /\ printed < response.voices
    /\ \/ /\ stdout' = Append(stdout, Line(MsgVoice, <<>>))
          /\ printed' = printed + 1
          /\ UNCHANGED <<pc, exit, raised>>
       \/ /\ raised' = raised \cup {"listing"}
          /\ PrintAndExit(MsgListing, <<"Exception">>)
          /\ UNCHANGED printed
    /\ UNCHANGED <<cli, args, file_ext, text, file, opens, clients, listCalls,
                   synthCalls, response, outFile0, outFile, outOpens>>

LvReturn ==
    /\ pc = "lv_print"
    /\ printed = response.voices
    /\ SysExit(0)
    /\ UNCHANGED <<cli, args, stdout, file_ext, text, file, opens, clients,
                   listCalls, synthCalls, response, printed, outFile0, outFile,
                   outOpens, raised>>

(* ----------------------- text_to_speech: input ------------------------ *)

\* the last index of c in p, 0 when c is not in p (str.rfind, 1-based)
RECURSIVE RFind(_, _, _)
RFind(p, c, i) ==
    IF i = 0 THEN 0
    ELSE IF p[i] = c THEN i
    ELSE RFind(p, c, i - 1)

\* whether p[from .. to-1] holds a character other than a dot
RECURSIVE HasNonDot(_, _, _)
HasNonDot(p, from, to) ==
    IF from >= to THEN FALSE
    ELSE IF p[from] # "." THEN TRUE
    ELSE HasNonDot(p, from + 1, to)

\* os.path.splitext(p)[1]: the extension starts at the last dot after the
\* last separator, unless only dots come before it in the file name
SplitExt(p) ==
    LET sepIndex == RFind(p, "/", Len(p))
        dotIndex == RFind(p, ".", Len(p))
    IN  IF dotIndex > sepIndex /\ HasNonDot(p, sepIndex + 1, dotIndex)
        THEN SubSeq(p, dotIndex, Len(p))
        ELSE <<>>

LowerChar(c) ==
    CASE c = "T" -> "t"
      [] c = "X" -> "x"
      [] c = "P" -> "p"
      [] c = "D" -> "d"
      [] c = "F" -> "f"
      [] OTHER -> c

\* str.lower()
Lower(s) == [i \in 1..Len(s) |-> LowerChar(s[i])]

ExtTxt == <<".", "t", "x", "t">>
ExtPdf == <<".", "p", "d", "f">>

\* bytes.decode('utf-8'), strict: [ok, chars]
RECURSIVE Utf8Decode(_)
Utf8Decode(b) ==
    IF b = <<>> THEN [ok |-> TRUE, chars |-> <<>>]
    ELSE IF Head(b) = "A9" THEN [ok |-> FALSE, chars |-> <<>>]
    ELSE IF Head(b) = "C3"
         THEN IF Len(b) >= 2 /\ b[2] = "A9"
              THEN LET rest == Utf8Decode(SubSeq(b, 3, Len(b)))
                   IN  [ok |-> rest.ok, chars |-> <<"U+00E9">> \o rest.chars]
              ELSE [ok |-> FALSE, chars |-> <<>>]
    ELSE LET rest == Utf8Decode(Tail(b))
         IN  [ok |-> rest.ok, chars |-> <<Head(b)>> \o rest.chars]

\* the newline translation of a file opened in text mode with newline=None:
\* "\r\n" and a lone "\r" are read as "\n"
RECURSIVE UniversalNewlines(_)
UniversalNewlines(s) ==
    IF s = <<>> THEN <<>>
    ELSE IF Head(s) = "CR"
         THEN IF Len(s) >= 2 /\ s[2] = "LF"
              THEN <<"LF">> \o UniversalNewlines(SubSeq(s, 3, Len(s)))
              ELSE <<"LF">> \o UniversalNewlines(Tail(s))
    ELSE <<Head(s)>> \o UniversalNewlines(Tail(s))

\* open(input_file, 'r', encoding='utf-8') and f.read(): [exc, text]
ReadTxt(f) ==
    IF f.kind = "missing" THEN [exc |-> "FileNotFoundError", text |-> <<>>]
    ELSE IF f.kind = "denied" THEN [exc |-> "PermissionError", text |-> <<>>]
    ELSE LET d == Utf8Decode(f.bytes)
         IN  IF d.ok THEN [exc |-> "none", text |-> UniversalNewlines(d.chars)]
             ELSE [exc |-> "UnicodeDecodeError", text |-> <<>>]
\* mutant: the newline after the page text is left out
PageContributionNoNewline(page_text) == page_text

\* what the loop body adds to text for one page
PageContribution(page_text) ==
    IF page_text # <<>> THEN page_text \o <<"LF">> ELSE <<>>

\* the loop over reader.pages, from page i on, with acc read so far
RECURSIVE ExtractPages(_, _, _)
ExtractPages(pages, i, acc) ==
    IF i > Len(pages) THEN [exc |-> "none", text |-> acc]
    ELSE IF pages[i].raises THEN [exc |-> "PdfReadError", text |-> acc]
    ELSE ExtractPages(pages, i + 1, acc \o PageContribution(pages[i].text))

\* open(input_file, 'rb'), PdfReader(f) and the loop over its pages
ReadPdf(f) ==
    IF f.kind = "missing" THEN [exc |-> "FileNotFoundError", text |-> <<>>]
    ELSE IF f.kind = "denied" THEN [exc |-> "PermissionError", text |-> <<>>]
    ELSE IF f.kind # "pdf" THEN [exc |-> "PdfReadError", text |-> <<>>]
    ELSE ExtractPages(f.pages, 1, <<>>)
\* mutant: a bare except, which catches SystemExit too
IsExceptionBare(exc) == TRUE

\* whether an exception class derives from Exception; SystemExit does not
IsException(exc) == exc # "SystemExit"
\* mutant: except Exception comes first and hides except FileNotFoundError
ReadHandlersGenericFirst(exc, input_file) ==
    IF IsException(exc) THEN <<Line(MsgRead, <<exc>>)>>
    ELSE IF exc = "FileNotFoundError" THEN <<Line(MsgNotFound, input_file)>>
    ELSE <<>>

\* the except clauses of the try around the read: the lines they print
ReadHandlers(exc, input_file) ==
    IF exc = "FileNotFoundError" THEN <<Line(MsgNotFound, input_file)>>
    ELSE IF IsException(exc) THEN <<Line(MsgRead, <<exc>>)>>
    ELSE <<>>

\* the stage an exception of the read is counted under
ReadStage(exc) == IF exc = "FileNotFoundError" THEN "notfound" ELSE "read"

TtsSplitExt ==
    /\ pc = "tts_splitext"
    /\ file_ext' = Lower(SplitExt(args.input_file))
    /\ text' = <<>>
    /\ pc' = "tts_read"
    /\ UNCHANGED <<cli, args, exit, stdout, file, opens, clients, listCalls,
                   synthCalls, response, printed, outFile0, outFile, outOpens,
                   raised>>

\* the end of the try statement, with r the result of its body
EndRead(r) ==
    /\ text' = r.text
    /\ IF r.exc = "none"
       THEN /\ pc' = "tts_check"
            /\ UNCHANGED <<exit, stdout, raised>>
       ELSE /\ stdout' = stdout \o ReadHandlers(r.exc, args.input_file)
            /\ raised' = raised \cup {ReadStage(r.exc)}
            /\ SysExit(1)

TtsReadTxt ==
    /\ pc = "tts_read"
    /\ file_ext = ExtTxt
    /\ \E f \in AbsentFiles \cup TextFiles :
          /\ file' = f
          /\ opens' = opens + 1
          /\ EndRead(ReadTxt(f))
    /\ UNCHANGED <<cli, args, file_ext, clients, listCalls, synthCalls, response,
                   printed, outFile0, outFile, outOpens>>

TtsReadPdf ==
    /\ pc = "tts_read"
    /\ file_ext # ExtTxt
    /\ file_ext = ExtPdf
    /\ \E f \in AbsentFiles \cup PdfFiles \cup {NotAPdf} :
          /\ file' = f
          /\ opens' = opens + 1
          /\ EndRead(ReadPdf(f))
    /\ UNCHANGED <<cli, args, file_ext, clients, listCalls, synthCalls, response,
                   printed, outFile0, outFile, outOpens>>

TtsUnsupported ==
    /\ pc = "tts_read"
    /\ file_ext # ExtTxt
    /\ file_ext # ExtPdf
    /\ stdout' = Append(stdout, Line(MsgUnsupported, file_ext))
                    \o ReadHandlers("SystemExit", args.input_file)
    /\ SysExit(1)
    /\ UNCHANGED <<cli, args, file_ext, text, file, opens, clients, listCalls,
                   synthCalls, response, printed, outFile0, outFile, outOpens,
                   raised>>

(* --------------------- text_to_speech: synthesis ---------------------- *)

IsSpace(c) == c \in {"SP", "CR", "LF"}

\* str.strip()
RECURSIVE LStrip(_)
LStrip(s) ==
    IF s # <<>> /\ IsSpace(Head(s)) THEN LStrip(Tail(s)) ELSE s

RECURSIVE RStrip(_)
RStrip(s) ==
    IF s # <<>> /\ IsSpace(s[Len(s)]) THEN RStrip(SubSeq(s, 1, Len(s) - 1)) ELSE s

Strip(s) == RStrip(LStrip(s))
\* mutant: the text is tested without strip()
NoTextUnstripped(t) == t = <<>>

\* not text.strip()
NoText(t) == Strip(t) = <<>>

TtsCheckText ==
    /\ pc = "tts_check"
    /\ IF NoText(text)
       THEN PrintAndExit(MsgNoText, <<>>)
       ELSE /\ pc' = "tts_client"
            /\ UNCHANGED <<exit, stdout>>
    /\ UNCHANGED <<cli, args, file_ext, text, file, opens, clients, listCalls,
                   synthCalls, response, printed, outFile0, outFile, outOpens,
                   raised>>

TtsCreateClient ==
    /\ pc = "tts_client"
    /\ clients' = clients + 1
    /\ \/ /\ pc' = "tts_synthesize"
          /\ UNCHANGED <<exit, stdout, raised>>
       \/ /\ raised' = raised \cup {"client"}
          /\ PrintAndExit(MsgClient, <<"Exception">>)
    /\ UNCHANGED <<cli, args, file_ext, text, file, opens, listCalls, synthCalls,
                   response, printed, outFile0, outFile, outOpens>>
\* mutant: the stripped text is sent
SynthesisRequestStripped(t, voice_name, language_code) ==
    [ text |-> Strip(t), name |-> voice_name, language_code |-> language_code,
      audio_encoding |-> "MP3" ]

\* synthesis_input, voice and audio_config of the request
SynthesisRequest(t, voice_name, language_code) ==
    [ text |-> t, name |-> voice_name, language_code |-> language_code,
      audio_encoding |-> "MP3" ]
\* mutant: the output file is opened before the call is made
TtsSynthesizeOpensFirst ==
    /\ pc = "tts_synthesize"
    /\ outOpens' = outOpens + 1
    /\ outFile' = [exists |-> TRUE, data |-> <<>>]
    /\ synthCalls' = Append(synthCalls, SynthesisRequest(text, args.voice, args.language))
    /\ \/ /\ \E a \in AudioContents : response' = [response EXCEPT !.audio_content = a]
          /\ pc' = "tts_write"
          /\ UNCHANGED <<exit, stdout, raised>>
       \/ /\ raised' = raised \cup {"synthesis"}
          /\ PrintAndExit(MsgSynthesis, <<"Exception">>)
          /\ UNCHANGED response
    /\ UNCHANGED <<cli, args, file_ext, text, file, opens, clients, listCalls,
                   printed, outFile0>>

TtsSynthesize ==
    /\ pc = "tts_synthesize"
    /\ synthCalls' = Append(synthCalls, SynthesisRequest(text, args.voice, args.language))
    /\ \/ /\ \E a \in AudioContents : response' = [response EXCEPT !.audio_content = a]
          /\ pc' = "tts_write"
          /\ UNCHANGED <<exit, stdout, raised>>
       \/ /\ raised' = raised \cup {"synthesis"}
          /\ PrintAndExit(MsgSynthesis, <<"Exception">>)
          /\ UNCHANGED response
    /\ UNCHANGED <<cli, args, file_ext, text, file, opens, clients, listCalls,
                   printed, outFile0, outFile, outOpens>>

\* open(output_file, "wb") fails: nothing is opened, nothing is truncated
TtsWriteOpenFails ==
    /\ pc = "tts_write"
    /\ raised' = raised \cup {"write"}
    /\ PrintAndExit(MsgWrite, <<"OSError">>)
    /\ UNCHANGED <<cli, args, file_ext, text, file, opens, clients, listCalls,
                   synthCalls, response, printed, outFile0, outFile, outOpens>>

\* the file is opened and truncated, and out.write or the close fails
TtsWriteFails ==
    /\ pc = "tts_write"
    /\ outOpens' = outOpens + 1
    /\ \E k \in 0..Len(response.audio_content) :
          outFile' = [exists |-> TRUE, data |-> SubSeq(response.audio_content, 1, k)]
    /\ raised' = raised \cup {"write"}
    /\ PrintAndExit(MsgWrite, <<"OSError">>)
    /\ UNCHANGED <<cli, args, file_ext, text, file, opens, clients, listCalls,
                   synthCalls, response, printed, outFile0>>

\* the file is written and closed, the confirmation printed, the script ends
TtsWrite ==
    /\ pc = "tts_write"
    /\ outOpens' = outOpens + 1
    /\ outFile' = [exists |-> TRUE, data |-> response.audio_content]
    /\ stdout' = Append(stdout, Line(MsgWritten, args.output_file))
    /\ SysExit(0)
    /\ UNCHANGED <<cli, args, file_ext, text, file, opens, clients, listCalls,
                   synthCalls, response, printed, outFile0, raised>>

(* --------------------------- specification ---------------------------- *)

Next ==
    \/ ParseArgs
    \/ DispatchList
    \/ DispatchHelp
    \/ DispatchSynthesize
    \/ LvCreateClient
    \/ LvQuery
    \/ LvPrintVoice
    \/ LvReturn
    \/ TtsSplitExt
    \/ TtsReadTxt
    \/ TtsReadPdf
    \/ TtsUnsupported
    \/ TtsCheckText
    \/ TtsCreateClient
    \/ TtsSynthesize
    \/ TtsWriteOpenFails
    \/ TtsWriteFails
    \/ TtsWrite

Spec == Init /\ [][Next]_vars

\* the script runs to its end: no step of it waits for anything but the
\* return of a blocking call
FairSpec == Spec /\ WF_vars(Next)

(* ------------------------- vocabulary of the claims -------------------- *)

Done == pc = "done"

\* the positional arguments given and non-empty, without --list-voices
SynthesisRun ==
    /\ ~cli.list_voices
    /\ Len(cli.positionals) = 2
    /\ cli.positionals[1] # <<>>
    /\ cli.positionals[2] # <<>>

UsageError ==
    /\ ~cli.list_voices
    /\ \/ Len(cli.positionals) < 2
       \/ \E i \in 1..Len(cli.positionals) : cli.positionals[i] = <<>>

\* the path ends, in any letter case, in .txt or .pdf after a file name that
\* does not consist of dots alone
SupportedPath(p) ==
    /\ Len(p) >= 5
    /\ Lower(SubSeq(p, Len(p) - 3, Len(p))) \in {ExtTxt, ExtPdf}
    /\ \E i \in 1..(Len(p) - 4) :
          /\ p[i] # "."
          /\ \A j \in i..(Len(p) - 4) : p[j] # "/"

EndsIn(p, e) == Len(p) >= Len(e) /\ Lower(SubSeq(p, Len(p) - Len(e) + 1, Len(p))) = e

UnsupportedRun == SynthesisRun /\ ~SupportedPath(cli.positionals[1])

\* the input file was opened and read without an exception
ReadSucceeded ==
    /\ file.kind \in {"text", "pdf"}
    /\ raised \cap {"notfound", "read"} = {}

Blank(t) == \A i \in 1..Len(t) : t[i] \in {"SP", "CR", "LF"}

\* a text with "\r\n" and "\r" read as "\n"
NewlinesAsRead(s) ==
    LET kept == SelectSeq([i \in 1..Len(s) |-> i],
                          LAMBDA i : ~(s[i] = "LF" /\ i > 1 /\ s[i - 1] = "CR"))
    IN  [j \in 1..Len(kept) |-> IF s[kept[j]] = "CR" THEN "LF" ELSE s[kept[j]]]

\* the texts of pages i.. separated by newlines
RECURSIVE JoinPages(_, _)
JoinPages(pages, i) ==
    IF i > Len(pages) THEN <<>>
    ELSE IF i = Len(pages) THEN pages[i].text
    ELSE pages[i].text \o <<"LF">> \o JoinPages(pages, i + 1)

AllPagesHaveText(f) ==
    /\ f.kind = "pdf"
    /\ Len(f.pages) >= 1
    /\ \A i \in 1..Len(f.pages) : ~f.pages[i].raises /\ f.pages[i].text # <<>>

ValidTxtRun ==
    /\ Done
    /\ SynthesisRun
    /\ EndsIn(cli.positionals[1], ExtTxt)
    /\ file.kind = "text"
    /\ Utf8Decode(file.bytes).ok
    /\ file.bytes # <<>>
    /\ raised \cap {"client", "synthesis", "write"} = {}

WrittenAudio == [exists |-> TRUE, data |-> response.audio_content]

(* -------------------------------- C1 ---------------------------------- *)

\* C1 as stated: a valid .txt input with non-empty content, white space only
\* included, and no failure of the client, the call or the write: exactly one
\* synthesis call, with the decoded content as text, and the audio written.
C1_AsStated ==
    ValidTxtRun =>
        /\ Len(synthCalls) = 1
        /\ synthCalls[1].text = Utf8Decode(file.bytes).chars
        /\ outFile = WrittenAudio

\* C1 amended: when the decoded content has a character that is not white
\* space, there is exactly one synthesis call, its text is the decoded content
\* with "\r\n" and "\r" read as "\n", and the output file holds exactly the
\* returned audio bytes.
C1_TxtSynthesis ==
    (ValidTxtRun /\ ~Blank(Utf8Decode(file.bytes).chars)) =>
        /\ Len(synthCalls) = 1
        /\ synthCalls[1].text = NewlinesAsRead(Utf8Decode(file.bytes).chars)
        /\ outFile = WrittenAudio

C1_Witness ==
    /\ ValidTxtRun
    /\ file.bytes = <<"C3", "A9", "CR">>
    /\ Len(response.audio_content) = MaxAudio
    /\ exit = 0

(* -------------------------------- C2 ---------------------------------- *)

\* C2 as stated: for a PDF whose pages all yield text, the text extracted and
\* sent is the page texts joined by newlines, nothing after the last page.
C2_AsStated ==
    AllPagesHaveText(file) =>
        /\ text = JoinPages(file.pages, 1)
        /\ \A i \in 1..Len(synthCalls) : synthCalls[i].text = JoinPages(file.pages, 1)

\* C2 amended: the text extracted, and the text of any synthesis request, is
\* the page texts in page order, each followed by one newline: a newline
\* between consecutive pages and one more after the last page.
C2_PdfText ==
    AllPagesHaveText(file) =>
        /\ text = JoinPages(file.pages, 1) \o <<"LF">>
        /\ \A i \in 1..Len(synthCalls) :
              synthCalls[i].text = JoinPages(file.pages, 1) \o <<"LF">>

C2_Witness ==
    /\ AllPagesHaveText(file)
    /\ Len(file.pages) = MaxPages
    /\ file.pages[1].text = <<"a">>
    /\ Len(synthCalls) = 1

(* -------------------------------- C3 ---------------------------------- *)

\* C3: a run whose text is empty or white space only ends with the "no text
\* extracted" error and status 1, constructs no client and issues no
\* synthesis call; every synthesis request has a character that is not white
\* space.
C3_NoTextNoCall ==
    /\ (ReadSucceeded /\ Blank(text)) =>
          /\ clients = 0
          /\ synthCalls = <<>>
          /\ pc \in {"tts_check", "done"}
          /\ Done => exit = 1 /\ stdout = <<Line(MsgNoText, <<>>)>>
    /\ \A i \in 1..Len(synthCalls) : ~Blank(synthCalls[i].text)

C3_Witness ==
    /\ Done
    /\ ReadSucceeded
    /\ file.kind = "pdf"
    /\ Len(file.pages) >= 1
    /\ text = <<"SP", "LF">>

(* -------------------------------- C4 ---------------------------------- *)

\* C4: an input path whose extension is neither .txt nor .pdf in any letter
\* case ends the run with the "unsupported file type" error and status 1; the
\* input file is never opened, no client constructed, no call issued and the
\* output file not written.
C4_Unsupported ==
    UnsupportedRun =>
        /\ opens = 0
        /\ file = Unopened
        /\ clients = 0
        /\ synthCalls = <<>>
        /\ listCalls = <<>>
        /\ outOpens = 0
        /\ outFile = outFile0
        /\ Done => /\ exit = 1
                   /\ Len(stdout) = 1
                   /\ stdout[1].text = MsgUnsupported

C4_Witness ==
    /\ Done
    /\ UnsupportedRun
    /\ cli.positionals[1] = <<"d", ".", "t", "x", "t", "/", "a">>

(* -------------------------------- C5 ---------------------------------- *)

ExpectedLanguage == IF cli.language = None THEN <<"en-US">> ELSE cli.language

ListingOnly ==
    /\ \A i \in 1..Len(listCalls) : listCalls[i] = ExpectedLanguage
    /\ opens = 0
    /\ file = Unopened
    /\ synthCalls = <<>>
    /\ outOpens = 0
    /\ outFile = outFile0

\* C5 as stated: with --list-voices the run performs exactly one listing
\* query, with the --language value or en-US, reads no input, issues no
\* synthesis call and writes no output.
C5_AsStated ==
    (cli.list_voices /\ Done) => Len(listCalls) = 1 /\ ListingOnly

\* C5 amended: with --list-voices, whatever the positional arguments, the run
\* performs at most one listing query, exactly one when the client is
\* constructed, with the --language value or en-US as language code; it reads
\* no input file, issues no synthesis call and writes no output file.
C5_ListingOnly ==
    cli.list_voices =>
        /\ ListingOnly
        /\ Len(listCalls) <= 1
        /\ (Done /\ "client" \notin raised) => Len(listCalls) = 1

C5_Witness ==
    /\ Done
    /\ cli.list_voices
    /\ Len(cli.positionals) = 2
    /\ cli.language # None
    /\ Len(listCalls) = 1
    /\ exit = 0

(* -------------------------------- C6 ---------------------------------- *)

\* C6: without --list-voices and with fewer than two positional arguments the
\* run prints the usage help and exits with status 1; no client is
\* constructed, no call issued, no input read and no output written.
C6_Usage ==
    (~cli.list_voices /\ Len(cli.positionals) < 2) =>
        /\ pc \in {"parse_args", "dispatch", "done"}
        /\ clients = 0
        /\ listCalls = <<>>
        /\ synthCalls = <<>>
        /\ opens = 0
        /\ outOpens = 0
        /\ outFile = outFile0
        /\ Done => exit = 1 /\ stdout = <<Line(MsgUsage, <<>>)>>

C6_Witness ==
    /\ Done
    /\ ~cli.list_voices
    /\ Len(cli.positionals) = 1
    /\ cli.positionals[1] # <<>>

(* -------------------------------- C7 ---------------------------------- *)

\* an error of the run: a failure of the environment, or an input the script
\* rejects
HandledError ==
    \/ UsageError
    \/ raised # {}
    \/ UnsupportedRun
    \/ SynthesisRun /\ ReadSucceeded /\ Blank(text)

\* the selected action ran to its end
Completed ==
    \/ /\ cli.list_voices
       /\ Len(listCalls) = 1
       /\ "listing" \notin raised
       /\ printed = response.voices
    \/ /\ SynthesisRun
       /\ Len(synthCalls) = 1
       /\ "write" \notin raised
       /\ outOpens = 1
       /\ outFile = WrittenAudio

\* C7: every run ends; it ends with status 1 exactly when an error occurred
\* and with status 0 exactly when the selected action completed.
C7_ExitStatus ==
    /\ <>Done
    /\ [](Done => /\ exit \in {0, 1}
                  /\ exit = 1 <=> HandledError
                  /\ exit = 0 <=> Completed)
    /\ [](~Done => exit = NoExit)

C7_Witness ==
    /\ Done
    /\ exit = 1
    /\ raised = {"synthesis"}

(* -------------------------------- C8 ---------------------------------- *)

Stages == {"notfound", "read", "unsupported", "notext", "client", "synthesis", "write"}

\* the first stage of a synthesis run that failed
FailedStage ==
    IF UnsupportedRun THEN "unsupported"
    ELSE IF "notfound" \in raised THEN "notfound"
    ELSE IF "read" \in raised THEN "read"
    ELSE IF ReadSucceeded /\ Blank(text) THEN "notext"
    ELSE IF "client" \in raised THEN "client"
    ELSE IF "synthesis" \in raised THEN "synthesis"
    ELSE IF "write" \in raised THEN "write"
    ELSE "none"

Diagnostic(stage) ==
    CASE stage = "notfound" -> MsgNotFound
      [] stage = "read" -> MsgRead
      [] stage = "unsupported" -> MsgUnsupported
      [] stage = "notext" -> MsgNoText
      [] stage = "client" -> MsgClient
      [] stage = "synthesis" -> MsgSynthesis
      [] stage = "write" -> MsgWrite
      [] OTHER -> MsgWritten

\* C8: in a synthesis run every failure stage has a diagnostic of its own, and
\* a failed run prints one line only: the diagnostic of the first stage that
\* failed, never the confirmation.
C8_OneDiagnostic ==
    /\ \A s1, s2 \in Stages \cup {"none"} : s1 # s2 => Diagnostic(s1) # Diagnostic(s2)
    /\ (SynthesisRun /\ Done /\ FailedStage # "none") =>
          /\ exit = 1
          /\ Len(stdout) = 1
          /\ stdout[1].text = Diagnostic(FailedStage)
    /\ SynthesisRun => Cardinality(raised) <= 1

C8_Witness ==
    /\ Done
    /\ SynthesisRun
    /\ FailedStage = "notfound"
    /\ EndsIn(cli.positionals[1], ExtPdf)

(* -------------------------------- C9 ---------------------------------- *)

\* C9: a run issues at most one remote call, a ListVoices or a
\* SynthesizeSpeech call; nothing that failed is tried again, and a failure
\* of the client construction, of a call or of the write ends the run at once.
C9_OneCall ==
    /\ Len(listCalls) + Len(synthCalls) <= 1
    /\ clients <= 1
    /\ opens <= 1
    /\ outOpens <= 1
    /\ Cardinality(raised) <= 1
    /\ raised # {} => Done /\ exit = 1

C9_Witness ==
    /\ Done
    /\ raised = {"write"}
    /\ Len(synthCalls) = 1
    /\ outOpens = 1

(* -------------------------------- C10 --------------------------------- *)

\* C10: the output file is opened for writing only after the synthesis call
\* has returned; a run that ends with another error than a write error, a
\* listing run and a usage run leave the file at the output path as it was;
\* the confirmation names the output file and is printed only once the
\* returned bytes are in the file.
C10_OutputUntouched ==
    /\ (outOpens > 0 \/ outFile # outFile0) =>
          /\ Len(synthCalls) = 1
          /\ "synthesis" \notin raised
          /\ Done
    /\ (Done /\ exit = 1 /\ "write" \notin raised) => outFile = outFile0 /\ outOpens = 0
    /\ (cli.list_voices \/ UsageError) => outFile = outFile0 /\ outOpens = 0
    /\ \A i \in 1..Len(stdout) :
          stdout[i].text = MsgWritten =>
              /\ outFile = WrittenAudio
              /\ stdout[i].detail = cli.positionals[2]

C10_Witness ==
    /\ Done
    /\ outFile0 = OldFile
    /\ outFile = OldFile
    /\ "synthesis" \in raised

====
